---- MODULE Spec2Model ----
(***************************************************************************)
(* Model of the raster pipeline of airbus_ghalia:                          *)
(*   - GroundTruth.mask_evolution / store_mask_evol / show_mask_evol and   *)
(*     the folder loop of main()            (src/src/ground_truth.py)      *)
(*   - SatImageReader.calculate_ndvi / show_ndvi                           *)
(*                                          (src/src/sat_image_reader.py)  *)
(*   - ClassesReader.detect_classes / show_class and the class registry   *)
(*                                          (src/src/classes_reader.py)    *)
(* Pixel values are small integers; float32 arithmetic on them is modelled *)
(* by exact rationals plus the IEEE specials nan, +inf and -inf.           *)
(***************************************************************************)
EXTENDS Integers, Sequences, FiniteSets, TLC

\* ------------------------------------------------------------------ bounds
\* Largest pixel value of an input band.
MaxVal == 2
\* Magnitude of the most negative pixel value of an input band.
MaxNeg == 1
\* Largest number of pixels (height * width) of an input band.
MaxPix == 2
\* Largest number of directory entries of one folder.
MaxFiles == 2
\* Number of folders main() iterates over (56 in the source).
NumFolders == 2
\* Largest factor by which a band of a raster rescales another of its bands.
MaxScale == 2
\* Largest number of bands of an enumerated class raster.
MaxBands == 3
\* Largest number of detect_classes calls on one reader.
MaxCalls == 2

\* ------------------------------------------------------ program constants
\* Number of class bands mask_evolution reads and of matrix columns.
NumClasses == 7

\* ---------------------------------------------------- float32 arithmetic
Abs(x) == IF x < 0 THEN -x ELSE x

RECURSIVE GCD(_, _)
GCD(a, b) == IF b = 0 THEN a ELSE GCD(b, a % b)

\* A finite float n/d, in lowest terms with d > 0.
FNum(n, d) ==
    LET g == GCD(Abs(n), Abs(d))
        s == IF d < 0 THEN -1 ELSE 1
    IN  [kind |-> "num", n |-> (s * n) \div g, d |-> (s * d) \div g]

FInt(v) == [kind |-> "num", n |-> v, d |-> 1]
FZero == FInt(0)
FNaN == [kind |-> "nan", n |-> 0, d |-> 1]
FPosInf == [kind |-> "inf", n |-> 1, d |-> 1]
FNegInf == [kind |-> "inf", n |-> -1, d |-> 1]
\* Content of a cell that np.empty allocated and nothing wrote yet.
FGarbage == [kind |-> "garbage", n |-> 0, d |-> 1]

IsFinite(x) == x.kind = "num"

FAdd(x, y) == FNum(x.n * y.d + y.n * x.d, x.d * y.d)
FSub(x, y) == FNum(x.n * y.d - y.n * x.d, x.d * y.d)
FMul(x, y) == FNum(x.n * y.n, x.d * y.d)
FLe(x, y) == x.n * y.d <= y.n * x.d

\* IEEE division of finite operands (numpy true_divide with the divide and
\* invalid warnings ignored): x/0 is nan for x = 0 and +-inf otherwise.
true_divide(x, y) ==
    IF y.n # 0 THEN FNum(x.n * y.d, x.d * y.n)
    ELSE IF x.n = 0 THEN FNaN
    ELSE IF x.n > 0 THEN FPosInf
    ELSE FNegInf

\* ------------------------------------------------------------------ grids
\* A grid is a sequence of rows of equal length (a 2-D numpy array).
Height(g) == Len(g)
Width(g) == Len(g[1])
shape(g) == <<Height(g), Width(g)>>

PixelValues == (0 - MaxNeg) .. MaxVal

Shapes == {s \in (1..MaxPix) \X (1..MaxPix) : s[1] * s[2] <= MaxPix}

\* Every raw band grid of the bounded input space.
Grids == UNION {[1..s[1] -> [1..s[2] -> PixelValues]] : s \in Shapes}

Uniform(g, v) == [r \in 1..Height(g) |-> [c \in 1..Width(g) |-> v]]

\* band.astype(np.float32): every sample becomes a float.
astype_float32(g) == [r \in 1..Height(g) |-> [c \in 1..Width(g) |-> FInt(g[r][c])]]

RECURSIVE SumSeq(_)
SumSeq(s) == IF s = <<>> THEN FZero ELSE FAdd(s[1], SumSeq(Tail(s)))

\* np.sum over all elements of a float grid.
np_sum(g) == SumSeq([r \in 1..Height(g) |-> SumSeq(g[r])])

FMaxOf(S) == CHOOSE x \in S : \A y \in S : FLe(y, x)

\* np.max over all elements of a float grid.
np_max(g) == FMaxOf({g[r][c] : r \in 1..Height(g), c \in 1..Width(g)})

\* grid / scalar, elementwise.
GridDiv(g, m) == [r \in 1..Height(g) |-> [c \in 1..Width(g) |-> true_divide(g[r][c], m)]]

\* ----------------------------------------------------- coverage statistic
\* Variant of IsEmptyBand that tests the maximum instead of the sum.
IsEmptyBand_Max(band) == np_max(band) = FZero

\* Line 38: "la bande est vide" when its pixels sum to exactly zero.
IsEmptyBand(band) == np_sum(band) = FZero

\* Variant of band_normalized that leaves the band as it is.
band_normalized_raw(band) == band

\* Lines 42-43: divide by the maximum unless the maximum is zero.
band_normalized(band) ==
    LET band_max == np_max(band)
    IN  IF band_max # FZero THEN GridDiv(band, band_max) ELSE band

\* Lines 44-45: share of the normalised total in the pixel count, in percent.
pc_band(band) ==
    LET total_band == np_sum(band_normalized(band))
        npix == Height(band) * Width(band)
    IN  FMul(true_divide(total_band, FInt(npix)), FInt(100))

\* Lines 35-46: the value one iteration of the band loop stores.
Coverage(raw) ==
    LET band == astype_float32(raw)
    IN  IF IsEmptyBand(band) THEN FZero ELSE pc_band(band)

\* ------------------------------------------------------------- file names
\* A file name is a sequence of one-character strings.
NameA == <<"a", ".", "t", "i", "f">>
NameB == <<"b", "_", "2", "0", "2", "0", "_", "0", "5", "_", "1", "2", ".", "t", "i", "f">>
NameC == <<"c", "-", "2", "0", "2", "1", "-", "0", "1", "-", "0", "2", ".", "t", "i", "f">>
NameN == <<"n", ".", "t", "x", "t">>
Pool == {NameA, NameB, NameC, NameN}

\* Code point of the characters file names are made of.
Ord(ch) ==
    CASE ch = "-" -> 45 [] ch = "." -> 46
      [] ch = "0" -> 48 [] ch = "1" -> 49 [] ch = "2" -> 50 [] ch = "5" -> 53
      [] ch = "_" -> 95 [] ch = "a" -> 97 [] ch = "b" -> 98 [] ch = "c" -> 99
      [] ch = "f" -> 102 [] ch = "i" -> 105 [] ch = "n" -> 110
      [] ch = "t" -> 116 [] ch = "x" -> 120

\* Python's ordering of strings: by code point, a proper prefix first.
RECURSIVE StrLeq(_, _)
StrLeq(s, t) ==
    IF s = <<>> THEN TRUE
    ELSE IF t = <<>> THEN FALSE
    ELSE IF Ord(s[1]) # Ord(t[1]) THEN Ord(s[1]) < Ord(t[1])
    ELSE StrLeq(Tail(s), Tail(t))

\* sorted(): the elements of S in ascending order.
RECURSIVE sorted(_)
sorted(S) ==
    IF S = {} THEN <<>>
    ELSE LET m == CHOOSE x \in S : \A y \in S : StrLeq(x, y)
         IN  <<m>> \o sorted(S \ {m})

\* f.endswith(".tif")
endswith_tif(f) ==
    /\ Len(f) >= 4
    /\ SubSeq(f, Len(f) - 3, Len(f)) = <<".", "t", "i", "f">>

IsDigit(ch) == ch \in {"0", "1", "2", "3", "4", "5", "6", "7", "8", "9"}

\* The pattern \d{4}[-_]\d{2}[-_]\d{2} matches at position p of s.
MatchesAt(s, p) ==
    /\ p + 9 <= Len(s)
    /\ \A k \in 0..9 : IF k \in {4, 7} THEN s[p + k] \in {"-", "_"}
                                       ELSE IsDigit(s[p + k])

\* re.search: the leftmost match, <<>> when there is none (None).
re_search(s) ==
    LET P == {p \in 1..Len(s) : MatchesAt(s, p)}
    IN  IF P = {} THEN <<>>
        ELSE LET p == CHOOSE q \in P : \A o \in P : q <= o
             IN  SubSeq(s, p, p + 9)

\* match.group(0).replace("_", "-")
replace_underscores(m) == [k \in 1..Len(m) |-> IF m[k] = "_" THEN "-" ELSE m[k]]

\* ------------------------------------------------------ raster file store
\* What a directory entry holds: whether rasterio can open it, and the raw
\* grid of each of its bands (all of one shape).
Unreadable == [opens |-> FALSE, bands |-> <<>>]

\* A class raster of n bands: band 3 is empty, the other bands hold g.
ClassRaster(g, n) ==
    [opens |-> TRUE, bands |-> [b \in 1..n |-> IF b = 3 THEN Uniform(g, 0) ELSE g]]

SampleGrids == {<<<<1, 1>>>>, <<<<0, 1>>>>}
BandCounts == {3, NumClasses, NumClasses + 1}
SampleContents ==
    {Unreadable} \cup {ClassRaster(g, n) : g \in SampleGrids, n \in BandCounts}

\* Folders of at most MaxFiles entries with sample rasters, and folders of
\* one dated raster whose bands range over every grid of the input space.
SampleDirs ==
    {d \in UNION {[S -> SampleContents] :
                    S \in {T \in SUBSET Pool : Cardinality(T) <= MaxFiles}} :
        \A f \in DOMAIN d : ~endswith_tif(f) => d[f] = Unreadable}
RichDirs == {(NameB :> ClassRaster(g, NumClasses)) : g \in Grids}

\* g with every sample multiplied by k: the same mask in another encoding.
Scale(g, k) == [r \in 1..Height(g) |-> [c \in 1..Width(g) |-> k * g[r][c]]]

\* A class raster whose even bands hold g rescaled by k; band 3 is empty and
\* the other odd bands hold g.
ScaledRaster(g, k) ==
    [opens |-> TRUE,
     bands |-> [b \in 1..NumClasses |-> IF b = 3 THEN Uniform(g, 0)
                                        ELSE IF b % 2 = 0 THEN Scale(g, k)
                                        ELSE g]]

\* Folders of one dated raster that holds a grid in two encodings.
ScaledDirs == {(NameB :> ScaledRaster(g, k)) : g \in Grids, k \in 1..MaxScale}
Dirs == SampleDirs \cup RichDirs \cup ScaledDirs
EmptyDir == [f \in {} |-> Unreadable]

\* ------------------------------------------------------------------ state
VARIABLES
    pc,            \* position of main() / mask_evolution
    folder,        \* number of folders main() has started
    disk,          \* entries of the current folder: name -> content
    tif_files,     \* sorted .tif names of the current folder
    evol_matrix,   \* the (len(tif_files), 7) matrix
    writes,        \* per cell: number of assignments made to it
    divided,       \* per cell: a division was performed to compute it
    dates,         \* the date labels collected so far
    index,         \* 0-based index of the current file
    i,             \* band number of the inner loop
    handles,       \* indices of the files whose raster handle is open
    opened,        \* indices of the files opened so far in this folder
    failed,        \* indices of the files whose processing raised
    report,        \* per folder started: "done" or "error"
    npc,           \* position of calculate_ndvi / show_ndvi
    image,         \* the raster of the SatImageReader
    args,          \* red_band_index, nir_band_index, threshold, caller
    red,
    nir,
    denominator,
    ndvi,
    outcome,       \* how the call ended and what the caller received
    cpc,           \* position of the ClassesReader operations
    class_image,   \* the raster of the ClassesReader
    ci,            \* band number of the loop of detect_classes
    classes,       \* the list detect_classes is building
    returns,       \* the lists detect_classes has returned, in call order
    shown          \* how the last show_class call ended, and its title

evolVars == <<pc, folder, disk, tif_files, evol_matrix, writes, divided, dates,
              index, i, handles, opened, failed, report>>
ndviVars == <<npc, image, args, red, nir, denominator, ndvi, outcome>>
classVars == <<cpc, class_image, ci, classes, returns, shown>>
vars == <<evolVars, ndviVars, classVars>>

NoGrid == <<>>
NoImage == [bandes |-> 0, bands |-> <<>>]
NoArgs == [red_band_index |-> 0, nir_band_index |-> 0, threshold |-> "None",
           caller |-> "none"]
NoOutcome == [kind |-> "pending", value |-> NoGrid]

NdviIdle ==
    /\ npc = "idle"
    /\ image = NoImage
    /\ args = NoArgs
    /\ red = NoGrid
    /\ nir = NoGrid
    /\ denominator = NoGrid
    /\ ndvi = NoGrid
    /\ outcome = NoOutcome

NoShown == [kind |-> "pending", classe |-> 0, title |-> <<>>]

ClassIdle ==
    /\ cpc = "idle"
    /\ class_image = NoImage
    /\ ci = 1
    /\ classes = <<>>
    /\ returns = <<>>
    /\ shown = NoShown

\* np.empty((rows, 7))
np_empty(rows) == [r \in 1..rows |-> [c \in 1..NumClasses |-> FGarbage]]

Init ==
    /\ pc = "main"
    /\ folder = 0
    /\ disk = EmptyDir
    /\ tif_files = <<>>
    /\ evol_matrix = <<>>
    /\ writes = <<>>
    /\ divided = <<>>
    /\ dates = <<>>
    /\ index = 0
    /\ i = 1
    /\ handles = {}
    /\ opened = {}
    /\ failed = {}
    /\ report = <<>>
    /\ NdviIdle
    /\ ClassIdle

\* The content of the file the loop is at.
src == disk[tif_files[index + 1]]

\* ------------------------------------------------- main / mask_evolution
\* main() takes the next folder and calls mask_evolution, which lists the
\* folder, sorts its .tif names and allocates the matrix and the date list.
mask_evolution_call ==
    /\ pc = "main"
    /\ folder < NumFolders
    /\ \E d \in Dirs :
         LET files == sorted({f \in DOMAIN d : endswith_tif(f)})
         IN  /\ disk' = d
             /\ tif_files' = files
             /\ evol_matrix' = np_empty(Len(files))
             /\ writes' = [r \in 1..Len(files) |-> [c \in 1..NumClasses |-> 0]]
             /\ divided' = [r \in 1..Len(files) |-> [c \in 1..NumClasses |-> FALSE]]
    /\ folder' = folder + 1
    /\ dates' = <<>>
    /\ index' = 0
    /\ i' = 1
    /\ opened' = {}
    /\ failed' = {}
    /\ pc' = "loop"
    /\ UNCHANGED <<handles, report, ndviVars, classVars>>

\* os.listdir raises when the folder does not exist: the error reaches main().
listdir_raises ==
    /\ pc = "main"
    /\ folder < NumFolders
    /\ folder' = folder + 1
    /\ disk' = EmptyDir
    /\ tif_files' = <<>>
    /\ evol_matrix' = <<>>
    /\ writes' = <<>>
    /\ divided' = <<>>
    /\ dates' = <<>>
    /\ index' = 0
    /\ i' = 1
    /\ opened' = {}
    /\ failed' = {}
    /\ pc' = "except"
    /\ UNCHANGED <<handles, report, ndviVars, classVars>>

\* with rasterio.open(tif_path) as src: the file opens.
rasterio_open ==
    /\ pc = "loop"
    /\ index < Len(tif_files)
    /\ src.opens
    /\ handles' = handles \cup {index}
    /\ opened' = opened \cup {index}
    /\ i' = 1
    /\ pc' = "bands"
    /\ UNCHANGED <<folder, disk, tif_files, evol_matrix, writes, divided, dates,
                   index, failed, report, ndviVars, classVars>>

\* Variant of rasterio_open_raises that prints and skips the file.
rasterio_open_skips ==
    /\ pc = "loop"
    /\ index < Len(tif_files)
    /\ ~src.opens
    /\ index' = index + 1
    /\ UNCHANGED <<pc, folder, disk, tif_files, evol_matrix, writes, divided,
                   dates, i, handles, opened, failed, report, ndviVars, classVars>>

\* rasterio.open raises RasterioIOError: nothing in mask_evolution catches it.
rasterio_open_raises ==
    /\ pc = "loop"
    /\ index < Len(tif_files)
    /\ ~src.opens
    /\ failed' = failed \cup {index}
    /\ pc' = "except"
    /\ UNCHANGED <<folder, disk, tif_files, evol_matrix, writes, divided, dates,
                   index, i, handles, opened, report, ndviVars, classVars>>

\* Variant of read_band whose empty-band branch continues without assigning.
read_band_skips_empty ==
    /\ pc = "bands"
    /\ i <= NumClasses
    /\ i <= Len(src.bands)
    /\ LET raw == src.bands[i]
           empty == IsEmptyBand(astype_float32(raw))
       IN  /\ evol_matrix' = IF empty THEN evol_matrix
                             ELSE [evol_matrix EXCEPT ![index + 1][i] = Coverage(raw)]
           /\ divided' = [divided EXCEPT ![index + 1][i] = ~empty]
           /\ writes' = IF empty THEN writes
                        ELSE [writes EXCEPT ![index + 1][i] = @ + 1]
    /\ i' = i + 1
    /\ UNCHANGED <<pc, folder, disk, tif_files, dates, index, handles, opened,
                   failed, report, ndviVars, classVars>>

\* One iteration of "for i in range(1, 8)": read band i, store its coverage.
read_band ==
    /\ pc = "bands"
    /\ i <= NumClasses
    /\ i <= Len(src.bands)
    /\ LET raw == src.bands[i]
       IN  /\ evol_matrix' = [evol_matrix EXCEPT ![index + 1][i] = Coverage(raw)]
           /\ divided' = [divided EXCEPT ![index + 1][i] =
                                        ~IsEmptyBand(astype_float32(raw))]
    /\ writes' = [writes EXCEPT ![index + 1][i] = @ + 1]
    /\ i' = i + 1
    /\ UNCHANGED <<pc, folder, disk, tif_files, dates, index, handles, opened,
                   failed, report, ndviVars, classVars>>

\* Variant of read_band_raises that stores 0 for the missing band and goes on.
read_band_clamps ==
    /\ pc = "bands"
    /\ i <= NumClasses
    /\ i > Len(src.bands)
    /\ evol_matrix' = [evol_matrix EXCEPT ![index + 1][i] = FZero]
    /\ writes' = [writes EXCEPT ![index + 1][i] = @ + 1]
    /\ i' = i + 1
    /\ UNCHANGED <<pc, folder, disk, tif_files, divided, dates, index, handles,
                   opened, failed, report, ndviVars, classVars>>

\* Variant of read_band_raises without the with block: the handle stays open.
read_band_raises_leak ==
    /\ pc = "bands"
    /\ i <= NumClasses
    /\ i > Len(src.bands)
    /\ failed' = failed \cup {index}
    /\ pc' = "except"
    /\ UNCHANGED <<folder, disk, tif_files, evol_matrix, writes, divided, dates,
                   index, i, handles, opened, report, ndviVars, classVars>>

\* src.read(i) raises for a band the raster does not have; leaving the with
\* block closes the handle and the error leaves mask_evolution.
read_band_raises ==
    /\ pc = "bands"
    /\ i <= NumClasses
    /\ i > Len(src.bands)
    /\ handles' = handles \ {index}
    /\ failed' = failed \cup {index}
    /\ pc' = "except"
    /\ UNCHANGED <<folder, disk, tif_files, evol_matrix, writes, divided, dates,
                   index, i, opened, report, ndviVars, classVars>>

\* The band loop is over: leaving the with block closes the handle.
exit_with ==
    /\ pc = "bands"
    /\ i > NumClasses
    /\ handles' = handles \ {index}
    /\ pc' = "date"
    /\ UNCHANGED <<folder, disk, tif_files, evol_matrix, writes, divided, dates,
                   index, i, opened, failed, report, ndviVars, classVars>>

\* Lines 49-54: append the date found in the file name, or only print.
extract_date ==
    /\ pc = "date"
    /\ LET match == re_search(tif_files[index + 1])
       IN  dates' = IF match # <<>> THEN Append(dates, replace_underscores(match))
                                    ELSE dates
    /\ index' = index + 1
    /\ pc' = "loop"
    /\ UNCHANGED <<folder, disk, tif_files, evol_matrix, writes, divided, i,
                   handles, opened, failed, report, ndviVars, classVars>>

\* return evol_matrix, dates
mask_evolution_return ==
    /\ pc = "loop"
    /\ index = Len(tif_files)
    /\ pc' = "returned"
    /\ UNCHANGED <<folder, disk, tif_files, evol_matrix, writes, divided, dates,
                   index, i, handles, opened, failed, report, ndviVars, classVars>>

\* pd.DataFrame(evol_matrix, index=dates) raises ValueError unless there is
\* one index label per row; otherwise the frame is written to the CSV file
\* (the file itself is outside the model).
store_mask_evol ==
    /\ pc = "returned"
    /\ pc' = IF Len(dates) = Len(evol_matrix) THEN "stored" ELSE "except"
    /\ UNCHANGED <<folder, disk, tif_files, evol_matrix, writes, divided, dates,
                   index, i, handles, opened, failed, report, ndviVars, classVars>>

\* The locals of one pass of main()'s loop, dropped when the pass ends.
DropLocals ==
    /\ disk' = EmptyDir
    /\ tif_files' = <<>>
    /\ evol_matrix' = <<>>
    /\ writes' = <<>>
    /\ divided' = <<>>
    /\ dates' = <<>>
    /\ index' = 0
    /\ i' = 1
    /\ opened' = {}
    /\ failed' = {}

\* show_mask_evol plots and saves the figure; the folder is done.
show_mask_evol ==
    /\ pc = "stored"
    /\ report' = Append(report, "done")
    /\ pc' = "main"
    /\ DropLocals
    /\ UNCHANGED <<folder, handles, ndviVars, classVars>>

\* Variant of main_except without the try block: the error ends main().
main_aborts ==
    /\ pc = "except"
    /\ report' = Append(report, "error")
    /\ pc' = "exit"
    /\ DropLocals
    /\ UNCHANGED <<folder, handles, ndviVars, classVars>>

\* except Exception as e: print the folder and the error, go on.
main_except ==
    /\ pc = "except"
    /\ report' = Append(report, "error")
    /\ pc' = "main"
    /\ DropLocals
    /\ UNCHANGED <<folder, handles, ndviVars, classVars>>

\* The folder list is exhausted.
main_exit ==
    /\ pc = "main"
    /\ folder = NumFolders
    /\ pc' = "exit"
    /\ UNCHANGED <<folder, disk, tif_files, evol_matrix, writes, divided, dates,
                   index, i, handles, opened, failed, report, ndviVars, classVars>>

Next ==
    \/ mask_evolution_call
    \/ listdir_raises
    \/ rasterio_open
    \/ rasterio_open_raises
    \/ read_band
    \/ read_band_raises
    \/ exit_with
    \/ extract_date
    \/ mask_evolution_return
    \/ store_mask_evol
    \/ show_mask_evol
    \/ main_except
    \/ main_exit

Spec == Init /\ [][Next]_vars

\* ------------------------------------------ SatImageReader: NDVI engine
\* Default band indices of calculate_ndvi and show_ndvi.
DefaultRed == 3
DefaultNir == 4

\* A raster whose band DefaultRed holds r and whose band DefaultNir, when it
\* has one, holds n; the bands before them are empty.  All of one shape.
SatImage(r, n, count) ==
    [bandes |-> count,
     bands |-> [b \in 1..count |-> IF b = DefaultRed THEN r
                                   ELSE IF b = DefaultNir THEN n
                                   ELSE Uniform(r, 0)]]

Images ==
    {SatImage(r, Uniform(r, 0), DefaultRed) : r \in Grids}
    \cup {SatImage(p[1], p[2], DefaultNir) :
            p \in {q \in Grids \X Grids : shape(q[1]) = shape(q[2])}}

Callers == {"calculate_ndvi", "show_ndvi"}
IndexPairs == {<<DefaultRed, DefaultNir>>, <<DefaultNir, DefaultRed>>}
Thresholds == {"None", "0"}

InitNdvi ==
    /\ pc = "idle"
    /\ folder = 0
    /\ disk = EmptyDir
    /\ tif_files = <<>>
    /\ evol_matrix = <<>>
    /\ writes = <<>>
    /\ divided = <<>>
    /\ dates = <<>>
    /\ index = 0
    /\ i = 1
    /\ handles = {}
    /\ opened = {}
    /\ failed = {}
    /\ report = <<>>
    /\ npc = "start"
    /\ image \in Images
    /\ \E p \in IndexPairs, c \in Callers :
         args = [red_band_index |-> p[1], nir_band_index |-> p[2],
                 threshold |-> "None", caller |-> c]
    /\ red = NoGrid
    /\ nir = NoGrid
    /\ denominator = NoGrid
    /\ ndvi = NoGrid
    /\ outcome = NoOutcome
    /\ ClassIdle

Max(a, b) == IF a >= b THEN a ELSE b

Min(a, b) == IF a <= b THEN a ELSE b

\* Variant of InsufficientBands that compares with the smaller index.
InsufficientBands_Min == image.bandes < Min(args.red_band_index, args.nir_band_index)

\* Line 227: the raster has fewer bands than the larger of the two indices.
InsufficientBands == image.bandes < Max(args.red_band_index, args.nir_band_index)

GridAdd(a, b) == [r \in 1..Height(a) |-> [c \in 1..Width(a) |-> FAdd(a[r][c], b[r][c])]]
GridSub(a, b) == [r \in 1..Height(a) |-> [c \in 1..Width(a) |-> FSub(a[r][c], b[r][c])]]
GridTrueDivide(a, b) ==
    [r \in 1..Height(a) |-> [c \in 1..Width(a) |-> true_divide(a[r][c], b[r][c])]]

\* Variant of MaskZeroDenominator that leaves the quotient as it is.
MaskZeroDenominator_None(v, den) == v

\* ndvi[denominator == 0] = 0
MaskZeroDenominator(v, den) ==
    [r \in 1..Height(v) |-> [c \in 1..Width(v) |->
        IF den[r][c] = FZero THEN FZero ELSE v[r][c]]]

\* What calculate_ndvi hands back: where control goes next.
AfterCalculate == IF args.caller = "show_ndvi" THEN "show" ELSE "done"

\* Lines 227-229: print and return None.
calculate_ndvi_insufficient ==
    /\ npc = "start"
    /\ InsufficientBands
    /\ outcome' = [kind |-> "None", value |-> NoGrid]
    /\ npc' = AfterCalculate
    /\ UNCHANGED <<image, args, red, nir, denominator, ndvi, evolVars, classVars>>

\* Lines 231-233: read the two bands as float32 and add them.  A read of a
\* band the raster does not have raises IndexError, which nothing catches.
calculate_ndvi_read ==
    /\ npc = "start"
    /\ ~InsufficientBands
    /\ IF Max(args.red_band_index, args.nir_band_index) > image.bandes
       THEN /\ outcome' = [kind |-> "IndexError", value |-> NoGrid]
            /\ npc' = "done"
            /\ UNCHANGED <<red, nir, denominator>>
       ELSE /\ red' = astype_float32(image.bands[args.red_band_index])
            /\ nir' = astype_float32(image.bands[args.nir_band_index])
            /\ denominator' = GridAdd(nir', red')
            /\ npc' = "divide"
            /\ UNCHANGED outcome
    /\ UNCHANGED <<image, args, ndvi, evolVars, classVars>>

\* Lines 238-240: a read fails with RasterioIOError; print and return None.
calculate_ndvi_ioerror ==
    /\ npc = "start"
    /\ ~InsufficientBands
    /\ outcome' = [kind |-> "None", value |-> NoGrid]
    /\ npc' = AfterCalculate
    /\ UNCHANGED <<image, args, red, nir, denominator, ndvi, evolVars, classVars>>

\* Line 235: ndvi = np.true_divide(nir - red, denominator)
calculate_ndvi_divide ==
    /\ npc = "divide"
    /\ ndvi' = GridTrueDivide(GridSub(nir, red), denominator)
    /\ npc' = "mask"
    /\ UNCHANGED <<image, args, red, nir, denominator, outcome, evolVars, classVars>>

\* Lines 236-237: zero the pixels of a zero denominator, return the grid.
calculate_ndvi_return ==
    /\ npc = "mask"
    /\ ndvi' = MaskZeroDenominator(ndvi, denominator)
    /\ outcome' = [kind |-> "grid", value |-> ndvi']
    /\ npc' = AfterCalculate
    /\ UNCHANGED <<image, args, red, nir, denominator, evolVars, classVars>>

\* Lines 253-255: show_ndvi got None and raises SystemExit.
show_ndvi_exit ==
    /\ npc = "show"
    /\ outcome.kind = "None"
    /\ outcome' = [kind |-> "SystemExit", value |-> NoGrid]
    /\ npc' = "done"
    /\ UNCHANGED <<image, args, red, nir, denominator, ndvi, evolVars, classVars>>

\* np.where(ndvi > threshold, 1, 0) for the threshold 0
Binarize(v) ==
    [r \in 1..Height(v) |-> [c \in 1..Width(v) |->
        IF v[r][c].n > 0 THEN FInt(1) ELSE FZero]]

\* Lines 256-264: binarise when a threshold is given, then draw the grid.
show_ndvi_render ==
    /\ npc = "show"
    /\ outcome.kind = "grid"
    /\ \E t \in Thresholds :
         /\ args' = [args EXCEPT !.threshold = t]
         /\ outcome' = [kind |-> "shown",
                        value |-> IF t = "None" THEN ndvi ELSE Binarize(ndvi)]
    /\ npc' = "done"
    /\ UNCHANGED <<image, red, nir, denominator, ndvi, evolVars, classVars>>

NextNdvi ==
    \/ calculate_ndvi_insufficient
    \/ calculate_ndvi_read
    \/ calculate_ndvi_ioerror
    \/ calculate_ndvi_divide
    \/ calculate_ndvi_return
    \/ show_ndvi_exit
    \/ show_ndvi_render

SpecNdvi == InitNdvi /\ [][NextNdvi]_vars

\* ------------------------------------------- ClassesReader: class raster
\* Python strings are sequences of text chunks, so that a formatted string
\* is the concatenation of its literal parts and the decimal digits.
DigitChars == <<"0", "1", "2", "3", "4", "5", "6", "7", "8", "9">>

RECURSIVE str_nat(_)
str_nat(n) == IF n < 10 THEN <<DigitChars[n + 1]>>
              ELSE str_nat(n \div 10) \o <<DigitChars[(n % 10) + 1]>>

\* str(n) of an int.
str_int(n) == IF n < 0 THEN <<"-">> \o str_nat(0 - n) ELSE str_nat(n)

\* The literal of self.dict_classes, as its (key, value) pairs in order.
ClassItems ==
    << <<<<"Impervious surfaces">>, 1>>,
       <<<<"Agriculture">>, 2>>,
       <<<<"Forest">>, 3>>,
       <<<<"Wetlands">>, 4>>,
       <<<<"Soil">>, 5>>,
       <<<<"Water">>, 6>>,
       <<<<"Snow">>, 7>> >>

\* The dict built by inserting the pairs in order: a later pair replaces
\* an earlier one of the same key.
DictOf(items) ==
    [k \in {items[j][1] : j \in DOMAIN items} |->
        LET last == CHOOSE j \in DOMAIN items :
                        /\ items[j][1] = k
                        /\ \A m \in DOMAIN items : items[m][1] = k => m <= j
        IN items[last][2]]

dict_classes == DictOf(ClassItems)

\* {v: k for k, v in self.dict_classes.items()}
reverse_dict_classes ==
    DictOf([j \in DOMAIN ClassItems |->
              <<dict_classes[ClassItems[j][1]], ClassItems[j][1]>>])

\* d.get(key, default)
dict_get(d, key, default) == IF key \in DOMAIN d THEN d[key] ELSE default

\* f"Unknown Class ({classe})"
UnknownClass(classe) == <<"Unknown Class (">> \o str_int(classe) \o <<")">>

\* The state of a reader constructed on a raster of the given bands.
ClassesReader(bands) == [bandes |-> Len(bands), bands |-> bands]

\* A raster of n bands: the bands of the set M hold g, the others are empty.
MaskRaster(g, n, M) == [b \in 1..n |-> IF b \in M THEN g ELSE Uniform(g, 0)]

ClassImages ==
    {ClassesReader(MaskRaster(g, n, M)) :
        g \in Grids, n \in 1..MaxBands, M \in SUBSET (1..MaxBands)}
    \cup {ClassesReader(ClassRaster(g, n).bands) :
            g \in SampleGrids, n \in BandCounts}

\* The class numbers show_class is called with.
ClassArgs == (0 .. NumClasses + 1) \cup {99}

InitClasses ==
    /\ pc = "idle"
    /\ folder = 0
    /\ disk = EmptyDir
    /\ tif_files = <<>>
    /\ evol_matrix = <<>>
    /\ writes = <<>>
    /\ divided = <<>>
    /\ dates = <<>>
    /\ index = 0
    /\ i = 1
    /\ handles = {}
    /\ opened = {}
    /\ failed = {}
    /\ report = <<>>
    /\ NdviIdle
    /\ cpc = "ready"
    /\ class_image \in ClassImages
    /\ ci = 1
    /\ classes = <<>>
    /\ returns = <<>>
    /\ shown = NoShown

\* np.any(data) looking at the first pixel only.
np_any_first(data) == data[1][1] # 0

\* np.any(data)
np_any(data) == \E r \in 1..Height(data), c \in 1..Width(data) : data[r][c] # 0

\* detect_classes is entered: classes = [] and the loop starts at band 1.
detect_classes_call ==
    /\ cpc = "ready"
    /\ Len(returns) < MaxCalls
    /\ classes' = <<>>
    /\ ci' = 1
    /\ cpc' = "detect"
    /\ UNCHANGED <<class_image, returns, shown, evolVars, ndviVars>>

\* One iteration of `for i in range(1, self.bandes + 1)`.
detect_classes_step ==
    /\ cpc = "detect"
    /\ ci <= class_image.bandes
    /\ LET data == class_image.bands[ci]
       IN classes' = IF np_any(data) THEN Append(classes, ci) ELSE classes
    /\ ci' = ci + 1
    /\ UNCHANGED <<cpc, class_image, returns, shown, evolVars, ndviVars>>

\* The loop is exhausted: return classes.
detect_classes_return ==
    /\ cpc = "detect"
    /\ ci > class_image.bandes
    /\ returns' = Append(returns, classes)
    /\ cpc' = "ready"
    /\ UNCHANGED <<class_image, ci, classes, shown, evolVars, ndviVars>>

\* show_class(classe): the band is read first, which raises IndexError when
\* the raster has no such band; then the title is looked up and the figure
\* is drawn.
show_class ==
    /\ cpc = "ready"
    /\ \E classe \in ClassArgs :
         shown' =
           IF classe \notin 1..class_image.bandes
           THEN [kind |-> "IndexError", classe |-> classe, title |-> <<>>]
           ELSE [kind |-> "shown", classe |-> classe,
                 title |-> dict_get(reverse_dict_classes, classe,
                                    UnknownClass(classe))]
    /\ cpc' = "done"
    /\ UNCHANGED <<class_image, ci, classes, returns, evolVars, ndviVars>>

NextClasses ==
    \/ detect_classes_call
    \/ detect_classes_step
    \/ detect_classes_return
    \/ show_class

SpecClasses == InitClasses /\ [][NextClasses]_vars

\* =================================================================== claims
\* Helpers of the properties below.
Cells == {rc \in (1..Len(evol_matrix)) \X (1..NumClasses) : writes[rc[1]][rc[2]] > 0}

\* The raw grid of band c of the file of row r.
RawBand(r, c) == disk[tif_files[r]].bands[c]

RECURSIVE IntSum(_)
IntSum(s) == IF s = <<>> THEN 0 ELSE s[1] + IntSum(Tail(s))

\* Sum of the pixel values of a raw grid.
PixelSum(g) == IntSum([r \in 1..Height(g) |-> IntSum(g[r])])

Pixels(g) == (1..Height(g)) \X (1..Width(g))

\* C1: every coverage value mask_evolution has stored lies in [0, 100],
\* whatever the band grid (negative pixels, zero or negative maximum included).
C1_CoverageInRange ==
    \A rc \in Cells :
        LET v == evol_matrix[rc[1]][rc[2]]
        IN  IsFinite(v) /\ FLe(FZero, v) /\ FLe(v, FInt(100))

\* C2: when mask_evolution returns, there is one date per matrix row and the
\* k-th date is the one in the name of the file of row k.
C2_DatesAligned ==
    pc = "returned" =>
        /\ Len(dates) = Len(evol_matrix)
        /\ \A k \in 1..Len(dates) :
             dates[k] = replace_underscores(re_search(tif_files[k]))

\* C3: every element of the grid calculate_ndvi returns is finite and lies
\* in [-1, 1].
C3_NdviInRange ==
    outcome.kind = "grid" =>
        \A q \in Pixels(outcome.value) :
            LET v == outcome.value[q[1]][q[2]]
            IN  IsFinite(v) /\ FLe(FInt(-1), v) /\ FLe(v, FInt(1))

\* The red or the nir index exceeds the band count of the raster.
IndexExceeds ==
    \/ args.red_band_index > image.bandes
    \/ args.nir_band_index > image.bandes

\* C4 as claimed: with an index above the band count the call ends with an
\* error, for calculate_ndvi called directly and through show_ndvi alike.
C4_AlwaysRaises ==
    (IndexExceeds /\ npc = "done") => outcome.kind \in {"SystemExit", "IndexError"}

\* C4 amended: with an index above the band count no band is read and no
\* grid is produced; calculate_ndvi returns None to its caller, and show_ndvi
\* turns that None into SystemExit.
C4_NoneThenSystemExit ==
    IndexExceeds =>
        /\ red = NoGrid /\ nir = NoGrid /\ ndvi = NoGrid
        /\ outcome.kind \in {"pending", "None", "SystemExit"}
        /\ npc = "show" => outcome.kind = "None"
        /\ npc = "done" =>
             outcome.kind = IF args.caller = "show_ndvi" THEN "SystemExit" ELSE "None"

C4_Witness ==
    /\ IndexExceeds
    /\ npc = "done"
    /\ args.caller = "calculate_ndvi"
    /\ outcome.kind = "None"

\* C5 as claimed: once a file has failed and the error has been caught, every
\* later file of the sorted list has been opened.
C5_RemainingFilesProcessed ==
    pc = "except" =>
        \A k \in failed : \A j \in (k + 1)..(Len(tif_files) - 1) : j \in opened

\* C5 amended: a failing file ends mask_evolution for its folder (no later
\* file of the folder is opened); main() catches the error per folder,
\* reports it and goes on, so that every folder of the list is started.
C5_FolderGranularity ==
    /\ failed # {} =>
         /\ pc = "except"
         /\ failed = {index}
         /\ \A j \in opened : j <= index
    /\ pc = "exit" => (folder = NumFolders /\ Len(report) = NumFolders)
    /\ pc = "main" => Len(report) = folder

C5_Witness ==
    /\ pc = "except"
    /\ report = <<"error">>
    /\ failed = {0}
    /\ Len(tif_files) > 1

\* File k of the sorted list cannot be opened or has fewer than 7 bands.
BadFile(k) ==
    LET c == disk[tif_files[k + 1]]
    IN  ~c.opens \/ Len(c.bands) < NumClasses

\* C6: with such a file in the batch mask_evolution never returns a matrix:
\* the loop never gets past the file, its row is never completed, and the
\* call ends with that file's error.
C6_BadFileRaises ==
    \A k \in 0..(Len(tif_files) - 1) :
        BadFile(k) =>
            /\ pc \notin {"returned", "stored"}
            /\ index <= k
            /\ ~(index = k /\ pc = "date")
            /\ (index = k /\ pc = "except") => failed = {k}

C6_Witness ==
    /\ pc = "except"
    /\ \E k \in failed :
         /\ disk[tif_files[k + 1]].opens
         /\ Len(disk[tif_files[k + 1]].bands) < NumClasses
         /\ writes[k + 1][1] > 0

\* Files whose handle was opened, whose 7 bands were stored, without error.
Processed ==
    {k \in opened : k \notin failed /\ \A c \in 1..NumClasses : writes[k + 1][c] > 0}

\* C7: the matrix mask_evolution returns has one row per successfully
\* processed file and 7 columns in every row.
C7_MatrixShape ==
    pc \in {"returned", "stored"} =>
        /\ Len(evol_matrix) = Cardinality(Processed)
        /\ \A r \in 1..Len(evol_matrix) : Len(evol_matrix[r]) = 7

C7_Witness ==
    /\ pc = "returned"
    /\ Len(evol_matrix) = 2
    /\ \E k \in 1..2 : Len(disk[tif_files[k]].bands) > NumClasses

\* C8: at most one raster handle is open, namely that of the current file
\* while its bands are read; none is open anywhere else, in particular not
\* after mask_evolution returned or raised.
C8_OneHandle ==
    /\ Cardinality(handles) <= 1
    /\ pc = "bands" => handles = {index}
    /\ pc # "bands" => handles = {}

C8_Witness ==
    /\ pc = "except"
    /\ opened = {0, 1}
    /\ failed = {1}
    /\ handles = {}

\* C9: a band whose pixel values sum to 0 gets the coverage 0, and no
\* division was performed for it.
C9_ZeroSumIsZero ==
    \A rc \in Cells :
        PixelSum(RawBand(rc[1], rc[2])) = 0 =>
            /\ evol_matrix[rc[1]][rc[2]] = FZero
            /\ ~divided[rc[1]][rc[2]]

C9_Witness ==
    \E rc \in Cells :
        LET g == RawBand(rc[1], rc[2])
        IN  /\ PixelSum(g) = 0
            /\ \E q \in Pixels(g) : g[q[1]][q[2]] # 0
            /\ evol_matrix[rc[1]][rc[2]] = FZero

\* C10: the grid calculate_ndvi returns has the shape of its inputs and holds
\* 0 where nir + red = 0 and (nir - red) / (nir + red) everywhere else.
C10_NdviFormula ==
    outcome.kind = "grid" =>
        LET R == image.bands[args.red_band_index]
            N == image.bands[args.nir_band_index]
        IN  /\ shape(outcome.value) = shape(R)
            /\ shape(outcome.value) = shape(N)
            /\ \A q \in Pixels(R) :
                 LET v == outcome.value[q[1]][q[2]]
                     den == N[q[1]][q[2]] + R[q[1]][q[2]]
                     num == N[q[1]][q[2]] - R[q[1]][q[2]]
                 IN  IF den = 0 THEN v = FZero
                     ELSE /\ IsFinite(v)
                          /\ v.d # 0
                          /\ v.n * den = num * v.d

C10_Witness ==
    /\ outcome.kind = "grid"
    /\ image.bands[args.red_band_index] = <<<<0, 2>>>>
    /\ image.bands[args.nir_band_index] = <<<<0, 2>>>>
    /\ outcome.value = <<<<FZero, FZero>>>>

\* Every sample of g is non-negative.
NonNegative(g) == \A q \in Pixels(g) : g[q[1]][q[2]] >= 0

\* h is g with every sample multiplied by one positive factor.
IsRescaled(g, h) ==
    /\ shape(g) = shape(h)
    /\ \E k \in 1..(MaxScale + 1) : \A q \in Pixels(g) : h[q[1]][q[2]] = k * g[q[1]][q[2]]

\* C13: two bands of non-negative samples of which one is the other rescaled
\* by a positive factor get the same coverage, and a band holding one
\* uniform positive value gets 100.
C13_ScaleInvariant ==
    \A rc \in Cells :
        LET g == RawBand(rc[1], rc[2])
        IN  NonNegative(g) =>
              /\ \A sd \in Cells :
                   IsRescaled(g, RawBand(sd[1], sd[2])) =>
                       evol_matrix[sd[1]][sd[2]] = evol_matrix[rc[1]][rc[2]]
              /\ (\E v \in 1..MaxVal : g = Uniform(g, v)) =>
                   evol_matrix[rc[1]][rc[2]] = FInt(100)

C13_Witness ==
    \E rc \in Cells, sd \in Cells :
        LET g == RawBand(rc[1], rc[2])
            h == RawBand(sd[1], sd[2])
        IN  /\ NonNegative(g)
            /\ g # Uniform(g, 0)
            /\ g # Uniform(g, g[1][1])
            /\ h # g
            /\ IsRescaled(g, h)
            /\ evol_matrix[sd[1]][sd[2]] = evol_matrix[rc[1]][rc[2]]

RECURSIVE IntMax(_)
IntMax(s) == IF Len(s) = 1 THEN s[1]
             ELSE LET m == IntMax(Tail(s)) IN IF s[1] >= m THEN s[1] ELSE m

\* Largest sample of a raw grid.
PixelMax(g) == IntMax([r \in 1..Height(g) |-> IntMax(g[r])])

\* The coverage of a raw grid in closed form: 0 for a zero sum, else
\* 100 * sum / (max * pixels), the maximum counting as 1 when it is 0.
ClosedFormCoverage(g) ==
    LET sum == PixelSum(g)
        max == PixelMax(g)
        npix == Height(g) * Width(g)
    IN  IF sum = 0 THEN FZero
        ELSE FNum(100 * sum, (IF max = 0 THEN 1 ELSE max) * npix)

AllCells == (1..Len(evol_matrix)) \X (1..NumClasses)

\* C14: the matrix is allocated uninitialised; no cell is assigned twice, a
\* cell not yet assigned still holds its uninitialised content, and when
\* mask_evolution has returned every cell (r, c) was assigned exactly once
\* and holds the coverage of band c of file r.
C14_EveryCellAssignedOnce ==
    /\ \A rc \in AllCells :
         /\ writes[rc[1]][rc[2]] <= 1
         /\ writes[rc[1]][rc[2]] = 0 => evol_matrix[rc[1]][rc[2]] = FGarbage
    /\ pc \in {"returned", "stored"} =>
         \A rc \in AllCells :
             /\ writes[rc[1]][rc[2]] = 1
             /\ evol_matrix[rc[1]][rc[2]] # FGarbage
             /\ evol_matrix[rc[1]][rc[2]] = ClosedFormCoverage(RawBand(rc[1], rc[2]))

\* A returned two-row matrix with a cell of each path in one row.
C14_Witness ==
    /\ pc = "returned"
    /\ Len(evol_matrix) = 2
    /\ \E r \in 1..2, c \in 1..NumClasses, e \in 1..NumClasses :
         /\ divided[r][c] /\ writes[r][c] = 1
         /\ ~divided[r][e] /\ writes[r][e] = 1

\* The bands of the reader's raster that hold at least one non-zero pixel.
NonZeroBands ==
    {b \in 1..class_image.bandes :
        \E q \in Pixels(class_image.bands[b]) :
            class_image.bands[b][q[1]][q[2]] # 0}

StrictlyAscending(s) == \A j, k \in DOMAIN s : j < k => s[j] < s[k]

\* C11: every list detect_classes returns holds exactly the band numbers of
\* 1..n whose band has a non-zero pixel, in strictly ascending order (hence
\* without duplicates), and a later call on the same reader returns the
\* same list as an earlier one.
C11_DetectClasses ==
    /\ \A k \in DOMAIN returns :
         /\ {returns[k][j] : j \in DOMAIN returns[k]} = NonZeroBands
         /\ StrictlyAscending(returns[k])
    /\ \A j, k \in DOMAIN returns : returns[j] = returns[k]

\* The example of the claim: of three bands only the second is non-zero,
\* and two calls have both returned [2]; here the non-zero band sums to 0.
C11_Witness ==
    /\ class_image.bandes = 3
    /\ class_image.bands[2] = <<<<1, 0 - 1>>>>
    /\ NonZeroBands = {2}
    /\ returns = <<<<2>>, <<2>>>>

ClassNames == {ClassItems[j][1] : j \in DOMAIN ClassItems}

====
